---- MODULE Spec2Model ----
(***************************************************************************)
(* Verification model of the StudyBuddy retrieval core:                    *)
(*   - VectorStore          src/src/representation/vector_store.py         *)
(*   - SessionManager       src/mcp_server/session_manager.py              *)
(*   - RequestHandler       src/mcp_server/handlers.py                     *)
(*   - StudyAssistantPipeline (ingest / save_index / load_index)           *)
(*                                                                         *)
(* A batch of (vector, chunk) pairs inserted together is written as a run  *)
(* [tag, n]: the n pairs (tag,1) .. (tag,n).  A sequence of runs stands    *)
(* for the concatenation of its runs, so that the 1000-vector upgrade      *)
(* threshold of the store is modelled at its real value.                   *)
(***************************************************************************)
EXTENDS Integers, Sequences, FiniteSets, TLC

VARIABLES
    vs,         \* a stand-alone VectorStore: [index, documents]
    vsDisk,     \* the directory the stand-alone store saves to / loads from
    vsRes,      \* the last VectorStore call: operation, input, error raised
    nAdds,      \* number of add calls made so far on the stand-alone store
    sessions,   \* SessionManager.sessions: file_id -> session object (0: none)
    heap,       \* the DocumentSession objects ever created, by identity
    disk,       \* the cache directory: content hash -> directory contents
    pc,         \* per request thread: the statement it is about to execute
    cur,        \* per request thread: the locals of the running call
    last,       \* the last SessionManager call that finished, and its outcome
    ingestRuns, \* per content hash: ingest_pdf / ingest_audio calls started
    rt          \* a HybridRetriever and a Reranker over one index, and the last call

\* what the SessionManager steps leave alone
vsVars == <<vs, vsDisk, vsRes, nAdds, rt>>
\* what the steps of the stand-alone store leave alone
smVars == <<sessions, heap, disk, pc, cur, last, ingestRuns, rt>>
vars == <<vs, vsDisk, vsRes, nAdds, sessions, heap, disk, pc, cur, last, ingestRuns, rt>>

----------------------------------------------------------------------------
(* Bounds and program constants *)

\* embedding dimension of the default model (all-MiniLM-L6-v2)
Dimension == 384
\* vector count at which add() rebuilds the flat index into an IVF index
UpgradeThreshold == 1000
\* minimum number of IVF clusters
MinClusters == 100
\* number of add calls explored on the stand-alone store
MaxAdds == 3
\* number of DocumentSession objects created in one run
MaxSessions == 2
\* number of ingest_pdf / ingest_audio calls started in one run
MaxIngests == 2
\* batch sizes offered to add()
BatchSizes == {0, 1, 99, 100, 900, 1000}

----------------------------------------------------------------------------
(* Runs of (vector, chunk) pairs *)

RECURSIVE NTotal(_)
\* number of entries a sequence of runs stands for (faiss index.ntotal, len(documents))
NTotal(runs) == IF runs = <<>> THEN 0 ELSE Head(runs).n + NTotal(Tail(runs))

\* int(np.sqrt(n))
Isqrt(n) == CHOOSE r \in 0..n : r * r <= n /\ (r + 1) * (r + 1) > n

Max(a, b) == IF a >= b THEN a ELSE b

----------------------------------------------------------------------------
(* VectorStore *)

\* faiss.IndexFlatIP(dimension): exact index, needs no training
initialize_index == [kind |-> "flat", trained |-> TRUE, nlist |-> 0, vectors |-> <<>>]

\* VectorStore.__init__
NewVectorStore == [index |-> initialize_index, documents |-> <<>>]

\* _upgrade_to_ivf(n_vectors): [store, err].  faiss k-means refuses to train
\* on fewer points than clusters; an index built over no vectors stays untrained.
upgrade_to_ivf(store, n_vectors) ==
    LET n_list == Max(Isqrt(n_vectors), MinClusters)
        stored == NTotal(store.index.vectors)
    IN  IF stored > 0
        THEN IF stored < n_list
             THEN [store |-> store, err |-> "RuntimeError"]
             ELSE [store |-> [store EXCEPT !.index =
                                [kind |-> "ivf", trained |-> TRUE, nlist |-> n_list,
                                 vectors |-> store.index.vectors]],
                   err |-> "none"]
        ELSE [store |-> [store EXCEPT !.index =
                           [kind |-> "ivf", trained |-> FALSE, nlist |-> n_list,
                            vectors |-> <<>>]],
              err |-> "none"]

\* add() as it would be without the dimension check of lines 72-75
add_no_dimension_check(store, emb, ndocs, tag) ==
    IF emb.len # ndocs THEN [store |-> store, err |-> "ValueError"]
    ELSE IF emb.len = 0 THEN [store |-> store, err |-> "none"]
    ELSE IF emb.ndim = 1 THEN [store |-> store, err |-> "ValueError"]
    ELSE [store |-> [index |-> [store.index EXCEPT !.vectors =
                                   Append(@, [tag |-> tag, n |-> emb.len])],
                     documents |-> Append(store.documents, [tag |-> tag, n |-> ndocs])],
          err |-> "none"]

\* add(embeddings, documents): [store, err].  emb = [ndim, len, dim] is the
\* shape of the embeddings array (len = len(embeddings), dim = shape[1]),
\* ndocs = len(documents), tag names the batch.
add(store, emb, ndocs, tag) ==
    IF emb.len # ndocs THEN [store |-> store, err |-> "ValueError"]
    ELSE IF emb.len = 0 THEN [store |-> store, err |-> "none"]
    ELSE IF emb.ndim = 1 THEN [store |-> store, err |-> "ValueError"]
    ELSE IF emb.dim # Dimension THEN [store |-> store, err |-> "ValueError"]
    ELSE
      LET total_vectors == NTotal(store.index.vectors) + emb.len
          up == IF total_vectors >= UpgradeThreshold /\ store.index.kind = "flat"
                THEN upgrade_to_ivf(store, total_vectors)
                ELSE [store |-> store, err |-> "none"]
      IN  IF up.err # "none" THEN up
          ELSE IF ~up.store.index.trained
               THEN [store |-> up.store, err |-> "RuntimeError"]
               ELSE [store |-> [index |-> [up.store.index EXCEPT !.vectors =
                                              Append(@, [tag |-> tag, n |-> emb.len])],
                                documents |-> Append(up.store.documents,
                                                     [tag |-> tag, n |-> ndocs])],
                     err |-> "none"]

\* clear()
clear(store) == [index |-> initialize_index, documents |-> <<>>]

----------------------------------------------------------------------------
(* Files of a cache directory.  st: "absent", "partial" (a write that      *)
(* failed midway) or "ok".                                                 *)

NoIndexFile == [st |-> "absent", data |-> initialize_index]
NoDocsFile == [st |-> "absent", data |-> <<>>]
NoMetaFile == [st |-> "absent", file_id |-> "", processed |-> FALSE, file_type |-> ""]
EmptyDir == [exists |-> FALSE, index |-> NoIndexFile, docs |-> NoDocsFile,
             meta |-> NoMetaFile]

\* what a failed write leaves behind: the file as it was, or a truncated file
FailedWrite(old, dummy) == {old, [old EXCEPT !.st = "partial", !.data = dummy]}

\* save(path), lines 157-162: mkdir and faiss.write_index
write_index_file(dir, store) ==
    [dir EXCEPT !.exists = TRUE, !.index = [st |-> "ok", data |-> store.index]]

\* save(path), lines 165-167: pickle.dump(self.documents)
write_docs_file(dir, store) ==
    [dir EXCEPT !.docs = [st |-> "ok", data |-> store.documents]]

\* load(path): [store, err].  The index is assigned before the documents are read.
load(store, dir) ==
    IF ~dir.exists \/ dir.index.st # "ok"
    THEN [store |-> store, err |-> "RuntimeError"]
    ELSE LET s1 == [store EXCEPT !.index = dir.index.data]
         IN  IF dir.docs.st = "absent" THEN [store |-> s1, err |-> "FileNotFoundError"]
             ELSE IF dir.docs.st = "partial" THEN [store |-> s1, err |-> "UnpicklingError"]
             ELSE [store |-> [s1 EXCEPT !.documents = dir.docs.data], err |-> "none"]

----------------------------------------------------------------------------
(* The stand-alone VectorStore: any sequence of add, save, load, clear *)

NoEmb == [ndim |-> 2, len |-> 0, dim |-> Dimension]
VsCall(op, emb, ndocs, err) == [op |-> op, emb |-> emb, ndocs |-> ndocs, err |-> err]

\* the embeddings arrays offered to add: 1-D of any length, 2-D with the
\* right or a wrong second dimension
EmbShapes ==
    {[ndim |-> 1, len |-> l, dim |-> 0] : l \in BatchSizes}
    \cup {[ndim |-> 2, len |-> l, dim |-> d] : l \in BatchSizes,
                                               d \in {Dimension, Dimension + 1}}

VectorStoreAdd ==
    /\ nAdds < MaxAdds
    /\ \E emb \in EmbShapes : \E ndocs \in {emb.len, 0, 1} :
         LET r == add(vs, emb, ndocs, nAdds + 1)
         IN  /\ vs' = r.store
             /\ vsRes' = VsCall("add", emb, ndocs, r.err)
    /\ nAdds' = nAdds + 1
    /\ UNCHANGED <<vsDisk, smVars>>

\* save(path) running to its end
VectorStoreSave ==
    /\ vsDisk' = write_docs_file(write_index_file(vsDisk, vs), vs)
    /\ vsRes' = VsCall("save", NoEmb, 0, "none")
    /\ UNCHANGED <<vs, nAdds, smVars>>

\* save(path) failing while it writes index.faiss, or, index.faiss written,
\* while it writes documents.pkl
VectorStoreSaveFails ==
    /\ \/ \E f \in FailedWrite(vsDisk.index, initialize_index) :
            vsDisk' = [vsDisk EXCEPT !.exists = TRUE, !.index = f]
       \/ \E f \in FailedWrite(vsDisk.docs, <<>>) :
            vsDisk' = [write_index_file(vsDisk, vs) EXCEPT !.docs = f]
    /\ vsRes' = VsCall("save", NoEmb, 0, "IOError")
    /\ UNCHANGED <<vs, nAdds, smVars>>

VectorStoreLoad ==
    /\ LET r == load(vs, vsDisk)
       IN  /\ vs' = r.store
           /\ vsRes' = VsCall("load", NoEmb, 0, r.err)
    /\ UNCHANGED <<vsDisk, nAdds, smVars>>

VectorStoreClear ==
    /\ vs' = clear(vs)
    /\ vsRes' = VsCall("clear", NoEmb, 0, "none")
    /\ UNCHANGED <<vsDisk, nAdds, smVars>>

----------------------------------------------------------------------------
(* The uploaded files, the request threads and the session objects *)

Threads == {"t1", "t2"}
FileIds == {"A", "B"}
Paths == {"lec.pdf", "copy.PDF", "talk.mp3", "notes.txt"}

\* the bytes of each uploaded file: copy.PDF is a byte-identical copy of lec.pdf
Bytes(path) ==
    CASE path = "lec.pdf" -> <<1, 2>>
      [] path = "copy.PDF" -> <<1, 2>>
      [] path = "talk.mp3" -> <<3>>
      [] path = "notes.txt" -> <<4>>

\* Path(filepath).suffix.lower()
SuffixLower(path) ==
    CASE path = "lec.pdf" -> ".pdf"
      [] path = "copy.PDF" -> ".pdf"
      [] path = "talk.mp3" -> ".mp3"
      [] path = "notes.txt" -> ".txt"

\* number of chunks extraction and chunking produce: a function of the content
NChunks(bytes) == Len(bytes)

RECURSIVE Digest(_, _)
\* the running digest after the blocks of `bytes` were fed to it one by one
Digest(h, bytes) ==
    IF bytes = <<>> THEN h ELSE Digest((h * 31 + Head(bytes)) % 1009, Tail(bytes))

\* the characters of the file's name
NameBytes(path) ==
    CASE path = "lec.pdf" -> <<11>>
      [] path = "copy.PDF" -> <<12>>
      [] path = "talk.mp3" -> <<13>>
      [] path = "notes.txt" -> <<14>>

\* a hash derived from the file's name instead of its content
compute_file_hash_of_name(filepath) == Digest(7, NameBytes(filepath))

\* _compute_file_hash(filepath): a digest of the file's bytes, not of its name
compute_file_hash(filepath) == Digest(7, Bytes(filepath))

\* _get_cache_path(file_hash): cache_dir / file_hash
get_cache_path(file_hash) == file_hash

Hashes == {compute_file_hash(p) : p \in Paths}

\* HybridRetriever.__init__: self.bm25 = None
NoBm25 == [built |-> FALSE, corpus |-> <<>>]

\* config.retrieval.hybrid_enabled
HybridEnabled == TRUE

\* StudyAssistantPipeline.__init__: an empty store, no lexical index
NewPipeline == [vector_store |-> NewVectorStore, bm25 |-> NoBm25]

\* HybridRetriever._build_bm25_index / update_index
update_index(p) ==
    IF ~HybridEnabled \/ p.vector_store.documents = <<>> THEN p
    ELSE [p EXCEPT !.bm25 = [built |-> TRUE, corpus |-> p.vector_store.documents]]

\* StudyAssistantPipeline.load_index(path): [pipeline, err]
load_index(p, dir) ==
    LET r == load(p.vector_store, dir)
    IN  IF r.err # "none" THEN [pipeline |-> [p EXCEPT !.vector_store = r.store],
                                err |-> r.err]
        ELSE [pipeline |-> update_index([p EXCEPT !.vector_store = r.store]),
              err |-> "none"]

\* DocumentSession.__init__
DocumentSession(file_id, filepath, file_hash) ==
    [file_id |-> file_id, filepath |-> filepath, file_hash |-> file_hash,
     pipeline |-> NewPipeline, processed |-> FALSE,
     cache_path |-> get_cache_path(file_hash), file_type |-> ""]

NoSession == DocumentSession("", "lec.pdf", 0)
NoCall == [req |-> FALSE, file_id |-> "", filepath |-> "lec.pdf", sid |-> 0]

\* the record of a finished call: what was called, the session it returned
\* or worked on, the error it raised, and what it did on the way
Done(op, sid, err) ==
    [op |-> op, sid |-> sid, err |-> err, in_memory |-> FALSE, ingested |-> FALSE]

\* the locals of a call that holds session sid
Holding(req, sid) == [req |-> req, file_id |-> "", filepath |-> "lec.pdf", sid |-> sid]

TotalIngests == LET RECURSIVE Sum(_)
                    Sum(S) == IF S = {} THEN 0
                              ELSE LET h == CHOOSE x \in S : TRUE
                                   IN  ingestRuns[h] + Sum(S \ {h})
                IN  Sum(Hashes)

----------------------------------------------------------------------------
(* SessionManager.get_or_create_session *)

\* where a call returns to: handle_request goes on, a direct call is over
Return(t, req, next) ==
    /\ pc' = [pc EXCEPT ![t] = IF req THEN next ELSE "idle"]
    /\ cur' = [cur EXCEPT ![t] = IF req THEN @ ELSE NoCall]

Raise(t) ==
    /\ pc' = [pc EXCEPT ![t] = "idle"]
    /\ cur' = [cur EXCEPT ![t] = NoCall]

\* get_or_create_session without the in-memory lookup of lines 117-120
gocs_lookup_always_rebuilds(t, file_id, filepath, req) ==
    /\ pc[t] = "idle"
    /\ Len(heap) < MaxSessions
    /\ pc' = [pc EXCEPT ![t] = "gocs_build"]
    /\ cur' = [cur EXCEPT ![t] = [req |-> req, file_id |-> file_id,
                                  filepath |-> filepath, sid |-> 0]]
    /\ UNCHANGED <<sessions, heap, disk, last, ingestRuns, vsVars>>

\* lines 117-120: the in-memory lookup.  req: called from handle_request
gocs_lookup(t, file_id, filepath, req) ==
    /\ pc[t] = "idle"
    /\ IF sessions[file_id] # 0
       THEN /\ last' = [Done("get_or_create_session", sessions[file_id], "none")
                          EXCEPT !.in_memory = TRUE]
            /\ pc' = [pc EXCEPT ![t] = IF req THEN "hr_process" ELSE "idle"]
            /\ cur' = [cur EXCEPT ![t] =
                         IF req THEN Holding(TRUE, sessions[file_id]) ELSE NoCall]
            /\ UNCHANGED <<sessions, heap, disk, ingestRuns>>
       ELSE /\ Len(heap) < MaxSessions
            /\ pc' = [pc EXCEPT ![t] = "gocs_build"]
            /\ cur' = [cur EXCEPT ![t] = [req |-> req, file_id |-> file_id,
                                          filepath |-> filepath, sid |-> 0]]
            /\ UNCHANGED <<sessions, heap, disk, last, ingestRuns>>
    /\ UNCHANGED vsVars

\* a direct call of get_or_create_session(file_id, filepath)
GetOrCreateSession(t, file_id, filepath) == gocs_lookup(t, file_id, filepath, FALSE)

\* handle_request(file_id, filepath, ...), lines 343-344
HandleRequest(t, file_id, filepath) == gocs_lookup(t, file_id, filepath, TRUE)

\* get_or_create_session storing the session in the map before it loads
\* the cached index, so that a failed load leaves the session registered
GocsBuild_registers_first(t) ==
    /\ pc[t] = "gocs_build"
    /\ LET c == cur[t]
           file_hash == compute_file_hash(c.filepath)
           dir == disk[get_cache_path(file_hash)]
           cached == dir.exists /\ dir.index.st # "absent"
           fresh == DocumentSession(c.file_id, c.filepath, file_hash)
           ld == load_index(NewPipeline, dir)
           err == IF ~cached THEN "none"
                  ELSE IF dir.meta.st = "partial" THEN "JSONDecodeError"
                  ELSE ld.err
           session == IF cached /\ err = "none"
                      THEN [fresh EXCEPT !.file_type = dir.meta.file_type,
                                         !.pipeline = ld.pipeline,
                                         !.processed = TRUE]
                      ELSE fresh
           sid == Len(heap) + 1
           done == Done("get_or_create_session", sid, err)
       IN  /\ heap' = Append(heap, session)
           /\ sessions' = [sessions EXCEPT ![c.file_id] = sid]
           /\ IF err # "none"
              THEN /\ last' = [done EXCEPT !.sid = 0]
                   /\ Raise(t)
              ELSE /\ last' = done
                   /\ pc' = [pc EXCEPT ![t] = IF c.req THEN "hr_process" ELSE "idle"]
                   /\ cur' = [cur EXCEPT ![t] = IF c.req THEN Holding(TRUE, sid) ELSE NoCall]
    /\ UNCHANGED <<disk, ingestRuns, vsVars>>

\* lines 122-152: hash the file, look for index.faiss under the hash, load or
\* start empty, register the session
GocsBuild(t) ==
    /\ pc[t] = "gocs_build"
    /\ LET c == cur[t]
           file_hash == compute_file_hash(c.filepath)
           cache_path == get_cache_path(file_hash)
           dir == disk[cache_path]
           cached == dir.exists /\ dir.index.st # "absent"
           fresh == DocumentSession(c.file_id, c.filepath, file_hash)
           ld == load_index(NewPipeline, dir)
           err == IF ~cached THEN "none"
                  ELSE IF dir.meta.st = "partial" THEN "JSONDecodeError"
                  ELSE ld.err
           session == IF cached
                      THEN [fresh EXCEPT !.file_type = dir.meta.file_type,
                                         !.pipeline = ld.pipeline,
                                         !.processed = TRUE]
                      ELSE fresh
           sid == Len(heap) + 1
           done == Done("get_or_create_session", sid, err)
       IN  IF err # "none"
           THEN /\ last' = [done EXCEPT !.sid = 0]
                /\ Raise(t)
                /\ UNCHANGED <<sessions, heap>>
           ELSE /\ heap' = Append(heap, session)
                /\ sessions' = [sessions EXCEPT ![c.file_id] = sid]
                /\ last' = done
                /\ pc' = [pc EXCEPT ![t] = IF c.req THEN "hr_process" ELSE "idle"]
                /\ cur' = [cur EXCEPT ![t] = IF c.req THEN Holding(TRUE, sid) ELSE NoCall]
    /\ UNCHANGED <<disk, ingestRuns, vsVars>>

\* line 123: the uploaded file cannot be opened or read for hashing
GocsHashFails(t) ==
    /\ pc[t] = "gocs_build"
    /\ last' = Done("get_or_create_session", 0, "FileNotFoundError")
    /\ Raise(t)
    /\ UNCHANGED <<sessions, heap, disk, ingestRuns, vsVars>>

\* clear_session(file_id) with the "if file_id in self.sessions" test left
\* out and the whole map dropped
clear_session_drops_all(t, file_id) ==
    /\ pc[t] = "idle"
    /\ sessions' = [f \in FileIds |-> 0]
    /\ last' = Done("clear_session", 0, "none")
    /\ UNCHANGED <<heap, disk, pc, cur, ingestRuns, vsVars>>

\* clear_session(file_id)
ClearSession(t, file_id) ==
    /\ pc[t] = "idle"
    /\ sessions' = [sessions EXCEPT ![file_id] = 0]
    /\ last' = Done("clear_session", 0, "none")
    /\ UNCHANGED <<heap, disk, pc, cur, ingestRuns, vsVars>>

\* clear_all_sessions()
ClearAllSessions(t) ==
    /\ pc[t] = "idle"
    /\ sessions' = [f \in FileIds |-> 0]
    /\ last' = Done("clear_all_sessions", 0, "none")
    /\ UNCHANGED <<heap, disk, pc, cur, ingestRuns, vsVars>>

----------------------------------------------------------------------------
(* SessionManager.process_document *)

SupportedSuffixes == {".pdf", ".mp3", ".wav", ".m4a", ".mp4"}

\* metadata['file_type'] for a supported suffix
FileType(suffix) == IF suffix = ".pdf" THEN "pdf" ELSE "audio"

ProcDone(t, sid, err) == [Done("process_document", sid, err) EXCEPT !.ingested = TRUE]

\* process_document with the "if session.processed: return" test of lines
\* 161-163 left out
process_document_no_check(t, sid, req) ==
    /\ sid \in 1..Len(heap)
    /\ SuffixLower(heap[sid].filepath) \in SupportedSuffixes
    /\ TotalIngests < MaxIngests
    /\ ingestRuns' = [ingestRuns EXCEPT ![heap[sid].file_hash] = @ + 1]
    /\ pc' = [pc EXCEPT ![t] = "ingesting"]
    /\ cur' = [cur EXCEPT ![t] = Holding(req, sid)]
    /\ UNCHANGED <<last, sessions, heap, disk, vsVars>>

\* process_document without the else branch of lines 178-179: every suffix
\* that is not .pdf is taken for audio
process_document_any_suffix(t, sid, req) ==
    /\ sid \in 1..Len(heap)
    /\ LET s == heap[sid]
       IN  IF s.processed
           THEN /\ last' = Done("process_document", sid, "none")
                /\ pc' = [pc EXCEPT ![t] = IF req THEN "hr_handle" ELSE "idle"]
                /\ cur' = [cur EXCEPT ![t] = IF req THEN @ ELSE NoCall]
                /\ UNCHANGED ingestRuns
           ELSE /\ TotalIngests < MaxIngests
                /\ ingestRuns' = [ingestRuns EXCEPT ![s.file_hash] = @ + 1]
                /\ pc' = [pc EXCEPT ![t] = "ingesting"]
                /\ cur' = [cur EXCEPT ![t] = Holding(req, sid)]
                /\ UNCHANGED last
    /\ UNCHANGED <<sessions, heap, disk, vsVars>>

\* lines 161-179: return if processed, else dispatch on the suffix and enter
\* ingest_pdf / ingest_audio
process_document(t, sid, req) ==
    /\ sid \in 1..Len(heap)
    /\ LET s == heap[sid]
       IN  IF s.processed
           THEN /\ last' = Done("process_document", sid, "none")
                /\ pc' = [pc EXCEPT ![t] = IF req THEN "hr_handle" ELSE "idle"]
                /\ cur' = [cur EXCEPT ![t] = IF req THEN @ ELSE NoCall]
                /\ UNCHANGED ingestRuns
           ELSE IF SuffixLower(s.filepath) \notin SupportedSuffixes
           THEN /\ last' = Done("process_document", sid, "ValueError")
                /\ Raise(t)
                /\ UNCHANGED ingestRuns
           ELSE /\ TotalIngests < MaxIngests
                /\ ingestRuns' = [ingestRuns EXCEPT ![s.file_hash] = @ + 1]
                /\ pc' = [pc EXCEPT ![t] = "ingesting"]
                /\ cur' = [cur EXCEPT ![t] = Holding(req, sid)]
                /\ UNCHANGED last
    /\ UNCHANGED <<sessions, heap, disk, vsVars>>

\* a direct call of process_document(session) on any session object handed out
ProcessDocument(t, sid) ==
    /\ pc[t] = "idle"
    /\ process_document(t, sid, FALSE)

\* handle_request line 348
HrProcessDocument(t) ==
    /\ pc[t] = "hr_process"
    /\ process_document(t, cur[t].sid, TRUE)

\* pipeline.ingest_pdf / ingest_audio running to its end (extract, clean,
\* chunk, embed, vector_store.add, retriever.update_index), then
\* metadata['file_type']
IngestFinish(t) ==
    /\ pc[t] = "ingesting"
    /\ LET sid == cur[t].sid
           s == heap[sid]
           n == NChunks(Bytes(s.filepath))
           r == add(s.pipeline.vector_store,
                    [ndim |-> 2, len |-> n, dim |-> Dimension], n, s.file_hash)
       IN  IF r.err # "none"
           THEN /\ heap' = [heap EXCEPT ![sid].pipeline.vector_store = r.store]
                /\ last' = ProcDone(t, sid, r.err)
                /\ Raise(t)
           ELSE /\ heap' = [heap EXCEPT
                              ![sid].pipeline =
                                  update_index([@ EXCEPT !.vector_store = r.store]),
                              ![sid].file_type = FileType(SuffixLower(s.filepath))]
                /\ pc' = [pc EXCEPT ![t] = "save_index"]
                /\ UNCHANGED <<cur, last>>
    /\ UNCHANGED <<sessions, disk, ingestRuns, vsVars>>

\* extraction, transcription or embedding raises: nothing was added yet
IngestFails(t) ==
    /\ pc[t] = "ingesting"
    /\ last' = ProcDone(t, cur[t].sid, "ExtractionError")
    /\ Raise(t)
    /\ UNCHANGED <<sessions, heap, disk, ingestRuns, vsVars>>

\* lines 182-183, VectorStore.save lines 157-162: mkdir, write index.faiss
SaveIndexFile(t) ==
    /\ pc[t] = "save_index"
    /\ LET s == heap[cur[t].sid]
       IN  disk' = [disk EXCEPT ![s.cache_path] =
                      write_index_file(@, s.pipeline.vector_store)]
    /\ pc' = [pc EXCEPT ![t] = "save_docs"]
    /\ UNCHANGED <<sessions, heap, cur, last, ingestRuns, vsVars>>

\* faiss.write_index raises
SaveIndexFileFails(t) ==
    /\ pc[t] = "save_index"
    /\ LET s == heap[cur[t].sid]
       IN  \E f \in FailedWrite(disk[s.cache_path].index, initialize_index) :
             disk' = [disk EXCEPT ![s.cache_path] = [@ EXCEPT !.exists = TRUE,
                                                              !.index = f]]
    /\ last' = ProcDone(t, cur[t].sid, "IOError")
    /\ Raise(t)
    /\ UNCHANGED <<sessions, heap, ingestRuns, vsVars>>

\* VectorStore.save lines 165-167, then line 184: write documents.pkl, set processed
SaveDocsFile(t) ==
    /\ pc[t] = "save_docs"
    /\ LET sid == cur[t].sid
           s == heap[sid]
       IN  /\ disk' = [disk EXCEPT ![s.cache_path] =
                         write_docs_file(@, s.pipeline.vector_store)]
           /\ heap' = [heap EXCEPT ![sid].processed = TRUE]
    /\ pc' = [pc EXCEPT ![t] = "save_meta"]
    /\ UNCHANGED <<sessions, cur, last, ingestRuns, vsVars>>

\* pickle.dump raises
SaveDocsFileFails(t) ==
    /\ pc[t] = "save_docs"
    /\ LET s == heap[cur[t].sid]
       IN  \E f \in FailedWrite(disk[s.cache_path].docs, <<>>) :
             disk' = [disk EXCEPT ![s.cache_path].docs = f]
    /\ last' = ProcDone(t, cur[t].sid, "IOError")
    /\ Raise(t)
    /\ UNCHANGED <<sessions, heap, ingestRuns, vsVars>>

\* _save_session_metadata, lines 86-96, and the return of process_document
SaveMetadata(t) ==
    /\ pc[t] = "save_meta"
    /\ LET sid == cur[t].sid
           s == heap[sid]
       IN  /\ disk' = [disk EXCEPT ![s.cache_path].meta =
                         [st |-> "ok", file_id |-> s.file_id,
                          processed |-> s.processed, file_type |-> s.file_type]]
           /\ last' = ProcDone(t, sid, "none")
    /\ Return(t, cur[t].req, "hr_handle")
    /\ UNCHANGED <<sessions, heap, ingestRuns, vsVars>>

\* json.dump / open raises
SaveMetadataFails(t) ==
    /\ pc[t] = "save_meta"
    /\ LET s == heap[cur[t].sid]
       IN  \E st \in {disk[s.cache_path].meta.st, "partial"} :
             disk' = [disk EXCEPT ![s.cache_path].meta.st = st]
    /\ last' = ProcDone(t, cur[t].sid, "IOError")
    /\ Raise(t)
    /\ UNCHANGED <<sessions, heap, ingestRuns, vsVars>>

\* handle_request lines 351-359: the handler reads the session's pipeline
HandlerHandle(t) ==
    /\ pc[t] = "hr_handle"
    /\ last' = Done("handle_request", cur[t].sid, "none")
    /\ Raise(t)
    /\ UNCHANGED <<sessions, heap, disk, ingestRuns, vsVars>>

----------------------------------------------------------------------------
(* Scores.  A score is an exact fraction [n, d] with d > 0 in lowest terms. *)

RECURSIVE Gcd(_, _)
Gcd(a, b) == IF b = 0 THEN a ELSE Gcd(b, a % b)

Abs(x) == IF x < 0 THEN -x ELSE x

\* the fraction n / d in lowest terms
Frac(n, d) == LET g == Gcd(Abs(n), d) IN [n |-> n \div g, d |-> d \div g]

Zero == Frac(0, 1)
One == Frac(1, 1)

FAdd(a, b) == Frac(a.n * b.d + b.n * a.d, a.d * b.d)
FSub(a, b) == Frac(a.n * b.d - b.n * a.d, a.d * b.d)
FMul(a, b) == Frac(a.n * b.n, a.d * b.d)
\* a / b for b > 0
FDiv(a, b) == Frac(a.n * b.d, a.d * b.n)
FLess(a, b) == a.n * b.d < b.n * a.d
FLeq(a, b) == a.n * b.d <= b.n * a.d

\* the scores of a list of (document, score) pairs
ScoresOf(results) == [i \in 1..Len(results) |-> results[i].score]

\* scores.min() / scores.max() of a non-empty list
MinScore(scores) ==
    CHOOSE m \in {scores[i] : i \in 1..Len(scores)} :
        \A i \in 1..Len(scores) : FLeq(m, scores[i])
MaxScore(scores) ==
    CHOOSE m \in {scores[i] : i \in 1..Len(scores)} :
        \A i \in 1..Len(scores) : FLeq(scores[i], m)

\* the first k entries of a list: seq[:k] for k >= 0
Take(seq, k) == SubSeq(seq, 1, IF k < Len(seq) THEN k ELSE Len(seq))

RECURSIVE InsertDesc(_, _)
\* x put behind every entry whose score is not lower than its own
InsertDesc(sorted, x) ==
    IF sorted = <<>> THEN <<x>>
    ELSE IF FLess(Head(sorted).score, x.score) THEN <<x>> \o sorted
    ELSE <<Head(sorted)>> \o InsertDesc(Tail(sorted), x)

RECURSIVE SortDesc(_)
\* list.sort(key=score, reverse=True): stable, entries of equal score keep
\* the order they had
SortDesc(results) ==
    IF results = <<>> THEN <<>>
    ELSE InsertDesc(SortDesc(SubSeq(results, 1, Len(results) - 1)),
                    results[Len(results)])

----------------------------------------------------------------------------
(* HybridRetriever *)

\* _normalize_scores without the all-equal case of lines 171-172: a constant
\* list comes out as zeros
normalize_scores_no_equal_case(scores) ==
    IF scores = <<>> THEN <<>>
    ELSE LET min_score == MinScore(scores)
             max_score == MaxScore(scores)
         IN  [i \in 1..Len(scores) |->
                 IF max_score = min_score THEN Zero
                 ELSE FDiv(FSub(scores[i], min_score), FSub(max_score, min_score))]

\* _normalize_scores dividing by the maximum without subtracting the minimum
normalize_scores_by_max(scores) ==
    IF scores = <<>> THEN <<>>
    ELSE LET max_score == MaxScore(scores)
         IN  IF max_score = MinScore(scores)
             THEN [i \in 1..Len(scores) |-> One]
             ELSE [i \in 1..Len(scores) |-> FDiv(scores[i], max_score)]

\* _normalize_scores(scores)
normalize_scores(scores) ==
    IF scores = <<>> THEN <<>>
    ELSE LET min_score == MinScore(scores)
             max_score == MaxScore(scores)
         IN  IF max_score = min_score
             THEN [i \in 1..Len(scores) |-> One]
             ELSE [i \in 1..Len(scores) |->
                     FDiv(FSub(scores[i], min_score), FSub(max_score, min_score))]

\* the documents of a result list
DocsOf(results) == {results[i].doc : i \in 1..Len(results)}

\* position of a document in a result list that holds it
PosOf(results, doc) == CHOOSE i \in 1..Len(results) : results[i].doc = doc

\* lines 124-146: the score map in insertion order, the vector results
\* first, then the documents only the lexical search returned
score_map(vector_results, bm25_results) ==
    LET vector_scores == normalize_scores(ScoresOf(vector_results))
        bm25_scores == normalize_scores(ScoresOf(bm25_results))
        fromVector ==
            [i \in 1..Len(vector_results) |->
                [doc |-> vector_results[i].doc,
                 vector_score |-> vector_scores[i],
                 bm25_score |->
                    IF vector_results[i].doc \in DocsOf(bm25_results)
                    THEN bm25_scores[PosOf(bm25_results, vector_results[i].doc)]
                    ELSE Zero]]
        onlyBm25 ==
            SelectSeq([i \in 1..Len(bm25_results) |->
                          [doc |-> bm25_results[i].doc,
                           vector_score |-> Zero,
                           bm25_score |-> bm25_scores[i]]],
                      LAMBDA e : e.doc \notin DocsOf(vector_results))
    IN  fromVector \o onlyBm25

\* _combine_results without the else branch of lines 141-146: a document the
\* vector search did not return is dropped
combine_results_vector_only(vector_results, bm25_results, vector_weight, bm25_weight) ==
    LET m == SelectSeq(score_map(vector_results, bm25_results),
                       LAMBDA e : e.doc \in DocsOf(vector_results))
    IN  SortDesc([i \in 1..Len(m) |->
                    [doc |-> m[i].doc,
                     score |-> FAdd(FMul(vector_weight, m[i].vector_score),
                                    FMul(bm25_weight, m[i].bm25_score))]])

\* _combine_results sorting the score map from its last entry to its first:
\* documents of equal combined score come out in reverse encounter order
combine_results_ties_reversed(vector_results, bm25_results, vector_weight, bm25_weight) ==
    LET m == score_map(vector_results, bm25_results)
    IN  SortDesc([i \in 1..Len(m) |->
                    [doc |-> m[Len(m) + 1 - i].doc,
                     score |-> FAdd(FMul(vector_weight, m[Len(m) + 1 - i].vector_score),
                                    FMul(bm25_weight, m[Len(m) + 1 - i].bm25_score))]])

\* _combine_results(vector_results, bm25_results)
combine_results(vector_results, bm25_results, vector_weight, bm25_weight) ==
    LET m == score_map(vector_results, bm25_results)
    IN  SortDesc([i \in 1..Len(m) |->
                    [doc |-> m[i].doc,
                     score |-> FAdd(FMul(vector_weight, m[i].vector_score),
                                    FMul(bm25_weight, m[i].bm25_score))]])

\* the argument of a call that leaves top_k / top_m out
None == -1

\* config.retrieval.top_k
DefaultTopK == 20

\* number of chunks in the index
MaxDocs == 3

\* raw inner products and raw BM25 scores the chunks get for the query
VectorScores == {Frac(0, 1), Frac(4, 1), Frac(5, 1)}
Bm25Scores == {Frac(0, 1), Frac(2, 1), Frac(5, 1)}

\* the orders in which a search may hand out the n chunks: best score
\* first, chunks of equal score in any order
DescOrders(score, n) ==
    {o \in [1..n -> 1..n] :
        /\ \A i, j \in 1..n : i # j => o[i] # o[j]
        /\ \A i \in 1..(n - 1) : FLeq(score[o[i + 1]], score[o[i]])}

\* the (document, score) pairs of the chunks in a given order
Pairs(order, score) == [i \in 1..Len(order) |-> [doc |-> order[i], score |-> score[order[i]]]]

\* the outcome of a call: the list returned, the error raised, the log
\* records written
Outcome(result, err, log) == [result |-> result, err |-> err, log |-> log]

\* VectorStore.search(query_embedding, top_k) through _vector_retrieve.
\* faiss answers a search for zero neighbours with an empty result or with
\* an AssertionError, depending on its version (k0err).
vector_retrieve(r, top_k, order, k0err) ==
    IF r.ndocs = 0 THEN Outcome(<<>>, "none", {"Vector store is empty"})
    ELSE LET k == IF top_k < r.ndocs THEN top_k ELSE r.ndocs
         IN  IF k = 0
             THEN IF k0err THEN Outcome(<<>>, "AssertionError", {})
                  ELSE Outcome(<<>>, "none", {})
             ELSE Outcome(Take(Pairs(order, r.vscore), k), "none", {})

\* _bm25_retrieve(query, top_k): the top_k best of the lexical scores
bm25_retrieve(r, top_k, order) ==
    IF ~r.bm25_built THEN <<>> ELSE Take(Pairs(order, r.bscore), top_k)

\* retrieve(query, top_k) fetching top_k candidates from each signal instead
\* of top_k * 2
retrieve_fetches_top_k(r, top_k_arg, vorder, border, k0err) ==
    LET top_k == IF top_k_arg = None THEN r.top_k ELSE top_k_arg
    IN  IF ~r.hybrid_enabled \/ ~r.bm25_built
        THEN vector_retrieve(r, top_k, vorder, k0err)
        ELSE LET v == vector_retrieve(r, top_k, vorder, k0err)
                 b == bm25_retrieve(r, top_k, border)
             IN  IF v.err # "none" THEN v
                 ELSE Outcome(Take(combine_results(v.result, b, r.vector_weight,
                                                   r.bm25_weight), top_k),
                              "none", v.log)

\* retrieve(query, top_k) returning the whole fusion instead of combined[:top_k]
retrieve_returns_all(r, top_k_arg, vorder, border, k0err) ==
    LET top_k == IF top_k_arg = None THEN r.top_k ELSE top_k_arg
    IN  IF ~r.hybrid_enabled \/ ~r.bm25_built
        THEN vector_retrieve(r, top_k, vorder, k0err)
        ELSE LET v == vector_retrieve(r, top_k * 2, vorder, k0err)
                 b == bm25_retrieve(r, top_k * 2, border)
             IN  IF v.err # "none" THEN v
                 ELSE Outcome(combine_results(v.result, b, r.vector_weight,
                                              r.bm25_weight),
                              "none", v.log)

\* retrieve(query, top_k)
retrieve(r, top_k_arg, vorder, border, k0err) ==
    LET top_k == IF top_k_arg = None THEN r.top_k ELSE top_k_arg
    IN  IF ~r.hybrid_enabled \/ ~r.bm25_built
        THEN vector_retrieve(r, top_k, vorder, k0err)
        ELSE LET v == vector_retrieve(r, top_k * 2, vorder, k0err)
                 b == bm25_retrieve(r, top_k * 2, border)
             IN  IF v.err # "none" THEN v
                 ELSE Outcome(Take(combine_results(v.result, b, r.vector_weight,
                                                   r.bm25_weight), top_k),
                              "none", v.log)

\* the record of a call on the retriever or the reranker
RtCall(op, arg, input, out) ==
    [op |-> op, arg |-> arg, input |-> input, vorder |-> <<>>, border |-> <<>>,
     mscore |-> <<>>, result |-> out.result, err |-> out.err, log |-> out.log]

NoRtCall == RtCall("init", None, <<>>, Outcome(<<>>, "none", {}))

\* HybridRetriever.__init__ over an index of ndocs chunks, with the scores
\* the chunks will get for the query
HybridRetriever(ndocs, vscore, bscore, hybrid_enabled, built, vector_weight, bm25_weight) ==
    [ndocs |-> ndocs, vscore |-> vscore, bscore |-> bscore,
     hybrid_enabled |-> hybrid_enabled, bm25_built |-> built,
     vector_weight |-> vector_weight, bm25_weight |-> bm25_weight,
     top_k |-> DefaultTopK, enabled |-> FALSE, top_m |-> 0, candidates |-> <<>>,
     call |-> NoRtCall]

\* the top_k arguments of the calls
TopKArgs == {None} \cup 0..MaxDocs

\* a retrieve call.  Calls leave the retriever as it is and so do not
\* influence each other: one call is looked at per behaviour.
Retrieve ==
    /\ rt.call.op = "init"
    /\ \E top_k \in TopKArgs, k0err \in BOOLEAN :
       \E vorder \in DescOrders(rt.vscore, rt.ndocs),
          border \in DescOrders(rt.bscore, rt.ndocs) :
         rt' = [rt EXCEPT !.call =
                  [RtCall("retrieve", top_k, <<>>,
                          retrieve(rt, top_k, vorder, border, k0err))
                      EXCEPT !.vorder = vorder, !.border = border]]
    /\ UNCHANGED <<vs, vsDisk, vsRes, nAdds, sessions, heap, disk, pc, cur, last,
                   ingestRuns>>

\* a _combine_results call on its own, with the lists the two searches hand
\* it when they are asked for kv and kb candidates
CombineResults ==
    /\ rt.call.op = "init"
    /\ rt.bm25_built
    /\ \E kv \in 0..rt.ndocs, kb \in 0..rt.ndocs :
       \E vorder \in DescOrders(rt.vscore, rt.ndocs),
          border \in DescOrders(rt.bscore, rt.ndocs) :
         LET v == Take(Pairs(vorder, rt.vscore), kv)
             b == Take(Pairs(border, rt.bscore), kb)
         IN  rt' = [rt EXCEPT !.call =
                      RtCall("combine_results", None, <<v, b>>,
                             Outcome(combine_results(v, b, rt.vector_weight,
                                                     rt.bm25_weight),
                                     "none", {}))]
    /\ UNCHANGED <<vs, vsDisk, vsRes, nAdds, sessions, heap, disk, pc, cur, last,
                   ingestRuns>>

\* the score lists handed to _normalize_scores
ScoreLists ==
    UNION {[1..n -> {Frac(0, 1), Frac(2, 1), Frac(3, 1), Frac(5, 1)}] : n \in 0..(MaxDocs + 1)}

\* a _normalize_scores call
NormalizeScores ==
    /\ rt.call.op = "init"
    /\ \E scores \in ScoreLists :
         rt' = [rt EXCEPT !.call =
                  RtCall("normalize_scores", None, scores,
                         Outcome(normalize_scores(scores), "none", {}))]
    /\ UNCHANGED <<vs, vsDisk, vsRes, nAdds, sessions, heap, disk, pc, cur, last,
                   ingestRuns>>

----------------------------------------------------------------------------
(* Reranker *)

\* the candidates paired with the scores the cross-encoder gave them
Rescored(documents, mscore) ==
    [i \in 1..Len(documents) |-> [doc |-> documents[i].doc,
                                  score |-> mscore[documents[i].doc]]]

\* rerank that keeps the incoming scores and only cuts the list
rerank_keeps_scores(r, documents, top_m_arg, mscore) ==
    LET top_m == IF top_m_arg = None THEN r.top_m ELSE top_m_arg
    IN  Outcome(Take(documents, top_m), "none", {})

\* rerank(query, documents, top_m); mscore: what model.predict returns for
\* (query, text of the chunk)
rerank(r, documents, top_m_arg, mscore) ==
    IF ~r.enabled \/ documents = <<>>
    THEN Outcome(IF top_m_arg # None /\ top_m_arg # 0
                 THEN Take(documents, top_m_arg) ELSE documents,
                 "none", {})
    ELSE LET top_m == IF top_m_arg = None THEN r.top_m ELSE top_m_arg
         IN  Outcome(Take(SortDesc(Rescored(documents, mscore)), top_m),
                     "none", {"Reranked"})

\* Reranker.__init__ with its configuration, and a candidate list to rerank
Reranker(enabled, top_m, candidates) ==
    [HybridRetriever(0, <<>>, <<>>, FALSE, FALSE, Zero, Zero)
        EXCEPT !.enabled = enabled, !.top_m = top_m, !.candidates = candidates]

\* config.retrieval.top_m: the default, and a setting below the list length
TopMSettings == {2, 6}

\* scores the candidates come in with, and scores the cross-encoder gives
IncomingScores == {Frac(1, 2), Frac(1, 1)}
ModelScores == {Frac(-1, 1), Frac(3, 1), Frac(7, 1)}

\* candidate lists: distinct chunks, best incoming score first
CandidateLists ==
    UNION {{c \in [1..n -> [doc : 1..MaxDocs, score : IncomingScores]] :
              /\ \A i, j \in 1..n : i # j => c[i].doc # c[j].doc
              /\ \A i \in 1..(n - 1) : FLeq(c[i + 1].score, c[i].score)}
           : n \in 0..MaxDocs}

\* a rerank call
Rerank ==
    /\ rt.call.op = "init"
    /\ \E top_m \in {None} \cup 0..MaxDocs :
       \E mscore \in [1..MaxDocs -> ModelScores] :
         rt' = [rt EXCEPT !.call =
                  [RtCall("rerank", top_m, rt.candidates,
                          rerank(rt, rt.candidates, top_m, mscore))
                      EXCEPT !.mscore = mscore]]
    /\ UNCHANGED <<vs, vsDisk, vsRes, nAdds, sessions, heap, disk, pc, cur, last,
                   ingestRuns>>

----------------------------------------------------------------------------
(* StudyAssistantPipeline._retrieve_context *)

\* the top_k values callers pass: none (summaries) or 30 (flashcards, quizzes)
ContextTopKArgs == {None, 30}

\* scores of the cross-encoder in the pipeline runs
ContextModelScores == {Frac(-1, 1), Frac(3, 1)}

\* _retrieve_context(query, top_k): retrieve, then rerank without a top_m
RetrieveContext ==
    /\ rt.call.op = "init"
    /\ \E top_k \in ContextTopKArgs, k0err \in BOOLEAN :
       \E vorder \in DescOrders(rt.vscore, rt.ndocs),
          border \in DescOrders(rt.bscore, rt.ndocs) :
       \E mscore \in IF rt.enabled THEN [1..MaxDocs -> ContextModelScores]
                     ELSE {[d \in 1..MaxDocs |-> Zero]} :
         LET results == retrieve(rt, top_k, vorder, border, k0err)
             out == IF results.err # "none" THEN results
                    ELSE rerank(rt, results.result, None, mscore)
         IN  rt' = [rt EXCEPT !.call =
                      [RtCall("retrieve_context", top_k, results.result, out)
                          EXCEPT !.vorder = vorder, !.border = border,
                                 !.mscore = mscore]]
    /\ UNCHANGED <<vs, vsDisk, vsRes, nAdds, sessions, heap, disk, pc, cur, last,
                   ingestRuns>>

----------------------------------------------------------------------------
(* TextChunker.  A text is written as the sequence of the character counts *)
(* of its sentences, each sentence ending in a full stop and separated     *)
(* from the next by one blank, so that joining texts with a blank and      *)
(* splitting the result gives the sentences of the texts back.  A list of  *)
(* documents is a sequence of runs [n, text, metadata]: n documents in a   *)
(* row with a text of that shape and equal metadata.                       *)

\* config.chunking
ChunkSizeTokens == 300
OverlapTokens == 60
MinChunkSize == 100
MaxChunkSize == 400

\* chunk(): more documents than this, of an average length below
\* ShortAverage characters, are combined before chunking
ManyDocuments == 50
ShortAverage == 200

\* _estimate_tokens: one token for every four characters
CharsPerToken == 4

\* number of runs in a list of documents
MaxRuns == 2

RunLengths == {1, 25, 51}
TextShapes == {<<>>, <<160>>, <<440>>, <<800, 800>>}
MetadataValues == {"page1", "page2"}

RECURSIVE SumSeq(_)
SumSeq(ns) == IF ns = <<>> THEN 0 ELSE Head(ns) + SumSeq(Tail(ns))

\* len(text)
TextLen(text) == IF text = <<>> THEN 0 ELSE SumSeq(text) + Len(text) - 1

\* _estimate_tokens(text)
estimate_tokens(chars) == chars \div CharsPerToken

RECURSIVE Documents(_, _)
\* the documents of a list of runs, one after the other; doc is the position
\* of the document in the list
Documents(runs, first) ==
    IF runs = <<>> THEN <<>>
    ELSE [i \in 1..Head(runs).n |->
            [doc |-> first + i - 1, text |-> Head(runs).text,
             metadata |-> Head(runs).metadata]]
         \o Documents(Tail(runs), first + Head(runs).n)

\* _split_sentences(text): the sentences of a document, each with the
\* document it was taken from
split_sentences(d) ==
    [i \in 1..Len(d.text) |-> [doc |-> d.doc, tokens |-> estimate_tokens(d.text[i])]]

RECURSIVE TokensOf(_)
\* sum(self._estimate_tokens(s) for s in sentences)
TokensOf(sentences) ==
    IF sentences = <<>> THEN 0 ELSE Head(sentences).tokens + TokensOf(Tail(sentences))

RECURSIVE get_overlap_sentences(_, _)
\* _get_overlap_sentences(sentences, overlap_tokens): the longest tail of
\* the sentences whose tokens fit into overlap_tokens
get_overlap_sentences(sentences, overlap_tokens) ==
    IF sentences = <<>> THEN <<>>
    ELSE LET lastS == sentences[Len(sentences)]
         IN  IF lastS.tokens > overlap_tokens THEN <<>>
             ELSE Append(get_overlap_sentences(SubSeq(sentences, 1, Len(sentences) - 1),
                                               overlap_tokens - lastS.tokens),
                         lastS)

\* a chunk dict: the sentences joined into its text, its metadata, its tokens
Chunk(current_chunk, metadata) ==
    [text |-> current_chunk, metadata |-> metadata, tokens |-> TokensOf(current_chunk)]

\* one pass of the loop of _chunk_text (lines 70-108) over a sentence;
\* st = [chunks, current_chunk]
chunk_step(st, sentence, metadata) ==
    LET full == /\ TokensOf(st.current_chunk) + sentence.tokens > MaxChunkSize
                /\ st.current_chunk # <<>>
        chunks1 == IF full /\ TokensOf(st.current_chunk) >= MinChunkSize
                   THEN Append(st.chunks, Chunk(st.current_chunk, metadata))
                   ELSE st.chunks
        current1 == IF full THEN get_overlap_sentences(st.current_chunk, OverlapTokens)
                    ELSE st.current_chunk
        current2 == Append(current1, sentence)
        reached == TokensOf(current2) >= ChunkSizeTokens
    IN  [chunks |-> IF reached THEN Append(chunks1, Chunk(current2, metadata))
                    ELSE chunks1,
         current_chunk |-> IF reached THEN get_overlap_sentences(current2, OverlapTokens)
                           ELSE current2]

\* the one element of a singleton set
The(S) == CHOOSE x \in S : TRUE

RECURSIVE chunk_loop(_, _, _, _, _)
\* the loop of _chunk_text over the sentences lo..hi, in order: the first
\* half of the range, then the second half from the state the first left
chunk_loop(st, sentences, lo, hi, metadata) ==
    IF lo > hi THEN st
    ELSE IF lo = hi
         THEN The({chunk_step(s, sentences[lo], metadata) : s \in {st}})
    ELSE The({chunk_loop(half, sentences, (lo + hi) \div 2 + 1, hi, metadata) :
                half \in {chunk_loop(st, sentences, lo, (lo + hi) \div 2, metadata)}})

\* _chunk_text(text, metadata), the text given by its sentences
chunk_text(sentences, metadata) ==
    LET st == chunk_loop([chunks |-> <<>>, current_chunk |-> <<>>],
                         sentences, 1, Len(sentences), metadata)
    IN  IF st.current_chunk # <<>> /\ TokensOf(st.current_chunk) >= MinChunkSize
        THEN Append(st.chunks, Chunk(st.current_chunk, metadata))
        ELSE st.chunks

RECURSIVE FlattenSentences(_, _, _)
\* the sentences of ' '.join(the non-empty texts) of the documents lo..hi
FlattenSentences(docs, lo, hi) ==
    IF lo > hi THEN <<>>
    ELSE IF lo = hi THEN split_sentences(docs[lo])
    ELSE LET mid == (lo + hi) \div 2
         IN  FlattenSentences(docs, lo, mid) \o FlattenSentences(docs, mid + 1, hi)

RECURSIVE chunk_each(_, _, _)
\* lines 50-56: every document lo..hi with a text is chunked on its own
chunk_each(docs, lo, hi) ==
    IF lo > hi THEN <<>>
    ELSE IF lo = hi
         THEN IF docs[lo].text = <<>> THEN <<>>
              ELSE chunk_text(split_sentences(docs[lo]), docs[lo].metadata)
    ELSE LET mid == (lo + hi) \div 2
         IN  chunk_each(docs, lo, mid) \o chunk_each(docs, mid + 1, hi)

RECURSIVE TotalLen(_)
\* sum(len(doc.get('text', '')) for doc in documents), run by run
TotalLen(runs) ==
    IF runs = <<>> THEN 0
    ELSE Head(runs).n * TextLen(Head(runs).text) + TotalLen(Tail(runs))

RECURSIVE CountDocs(_)
\* len(documents)
CountDocs(runs) == IF runs = <<>> THEN 0 ELSE Head(runs).n + CountDocs(Tail(runs))

\* chunk(documents)
chunk(runs) ==
    LET docs == Documents(runs, 1)
    IN  IF /\ CountDocs(runs) > ManyDocuments
           /\ TotalLen(runs) < ShortAverage * CountDocs(runs)
        THEN chunk_text(FlattenSentences(docs, 1, Len(docs)), docs[1].metadata)
        ELSE chunk_each(docs, 1, Len(docs))

\* TextChunker.__init__, with the documents it will be handed
TextChunker(documents) ==
    [Reranker(FALSE, 0, <<>>) EXCEPT !.candidates = documents]

\* the lists of documents handed to chunk
DocumentLists ==
    UNION {[1..k -> [n : RunLengths, text : TextShapes, metadata : MetadataValues]] :
              k \in 0..MaxRuns}

\* a chunk(documents) call
ChunkDocuments ==
    /\ rt.call.op = "init"
    /\ rt' = [rt EXCEPT !.call =
                RtCall("chunk", None, rt.candidates,
                       Outcome(chunk(rt.candidates), "none", {}))]
    /\ UNCHANGED <<vs, vsDisk, vsRes, nAdds, sessions, heap, disk, pc, cur, last,
                   ingestRuns>>

----------------------------------------------------------------------------
(* The stand-alone StudyAssistantPipeline: its vector store is vs, its     *)
(* cache directory vsDisk, and rt holds the lexical index of its retriever *)

\* the retriever of the pipeline after a call op that ended with err
PipelineRetriever(bm25, op, err) ==
    [hybrid_enabled |-> HybridEnabled, bm25 |-> bm25,
     call |-> RtCall(op, None, <<>>, Outcome(<<>>, err, {}))]

\* ingest_pdf / ingest_audio: the chunks are embedded, added to the store,
\* and the retriever index is updated; a failing add ends the call
PipelineIngest ==
    /\ nAdds < MaxAdds
    /\ \E nchunks \in BatchSizes :
         LET r == add(vs, [ndim |-> 2, len |-> nchunks, dim |-> Dimension],
                      nchunks, nAdds + 1)
             q == update_index([vector_store |-> r.store, bm25 |-> rt.bm25])
         IN  /\ vs' = r.store
             /\ vsRes' = VsCall("add", [ndim |-> 2, len |-> nchunks, dim |-> Dimension],
                                nchunks, r.err)
             /\ rt' = IF r.err # "none"
                      THEN PipelineRetriever(rt.bm25, "ingest", r.err)
                      ELSE PipelineRetriever(q.bm25, "ingest", "none")
    /\ nAdds' = nAdds + 1
    /\ UNCHANGED <<vsDisk, sessions, heap, disk, pc, cur, last, ingestRuns>>

\* load_index(path)
PipelineLoadIndex ==
    /\ LET r == load_index([vector_store |-> vs, bm25 |-> rt.bm25], vsDisk)
       IN  /\ vs' = r.pipeline.vector_store
           /\ vsRes' = VsCall("load", NoEmb, 0, r.err)
           /\ rt' = PipelineRetriever(r.pipeline.bm25, "load_index", r.err)
    /\ UNCHANGED <<vsDisk, nAdds, sessions, heap, disk, pc, cur, last, ingestRuns>>

\* vector_store.clear() followed by retriever.update_index()
PipelineClear ==
    /\ LET q == update_index([vector_store |-> clear(vs), bm25 |-> rt.bm25])
       IN  /\ vs' = q.vector_store
           /\ rt' = PipelineRetriever(q.bm25, "clear", "none")
    /\ vsRes' = VsCall("clear", NoEmb, 0, "none")
    /\ UNCHANGED <<vsDisk, nAdds, sessions, heap, disk, pc, cur, last, ingestRuns>>

----------------------------------------------------------------------------
(* Specifications *)

InitVs ==
    /\ vs = NewVectorStore
    /\ vsDisk = EmptyDir
    /\ vsRes = VsCall("init", NoEmb, 0, "none")
    /\ nAdds = 0

InitSm ==
    /\ sessions = [f \in FileIds |-> 0]
    /\ heap = <<>>
    /\ disk = [h \in Hashes |-> EmptyDir]
    /\ pc = [t \in Threads |-> "idle"]
    /\ cur = [t \in Threads |-> NoCall]
    /\ last = Done("init", 0, "none")
    /\ ingestRuns = [h \in Hashes |-> 0]

\* no retriever under observation
InitNoRt == rt = Reranker(FALSE, 0, <<>>)

Init == InitVs /\ InitSm /\ InitNoRt

\* the steps of direct SessionManager calls that run to their end
Step(t, paths) ==
    \/ \E f \in FileIds, p \in paths : GetOrCreateSession(t, f, p)
    \/ GocsBuild(t)
    \/ \E sid \in 1..Len(heap) : ProcessDocument(t, sid)
    \/ IngestFinish(t)
    \/ SaveIndexFile(t)
    \/ SaveDocsFile(t)
    \/ SaveMetadata(t)
    \/ \E f \in FileIds : ClearSession(t, f)
    \/ ClearAllSessions(t)

\* the steps of handle_request
RequestStep(t, paths) ==
    \/ \E f \in FileIds, p \in paths : HandleRequest(t, f, p)
    \/ HrProcessDocument(t)
    \/ HandlerHandle(t)

\* the steps at which a call raises
FailStep(t) ==
    \/ GocsHashFails(t)
    \/ IngestFails(t)
    \/ SaveIndexFileFails(t)
    \/ SaveDocsFileFails(t)
    \/ SaveMetadataFails(t)

\* the uploads the concurrent requests are about: one document, uploaded twice
SameBytes == {"lec.pdf", "copy.PDF"}

\* the steps inside a call that is under way
CallStep(t) ==
    \/ GocsBuild(t)
    \/ IngestFinish(t)
    \/ SaveIndexFile(t)
    \/ SaveDocsFile(t)
    \/ SaveMetadata(t)

\* concurrent request threads: handle_request and clear_session calls
\* interleave, and calls may raise
Next ==
    \E t \in Threads :
        \/ RequestStep(t, SameBytes)
        \/ CallStep(t)
        \/ \E f \in FileIds : ClearSession(t, f)
        \/ FailStep(t)

Spec == Init /\ [][Next]_vars

\* one caller, one call at a time, nothing fails
SeqNext == Step("t1", Paths)

SeqSpec == Init /\ [][SeqNext]_vars

\* one caller, one call at a time, calls may raise
FailNext == Step("t1", Paths) \/ FailStep("t1")

FailSpec == Init /\ [][FailNext]_vars

\* the stand-alone VectorStore
VsNext ==
    \/ VectorStoreAdd
    \/ VectorStoreSave
    \/ VectorStoreSaveFails
    \/ VectorStoreLoad
    \/ VectorStoreClear

VsSpec == Init /\ [][VsNext]_vars

\* a retriever over any small index: scores of the chunks for the query,
\* fusion configured on or off, lexical index built or not, the weights
InitCh ==
    /\ InitVs
    /\ InitSm
    /\ \E documents \in DocumentLists : rt = TextChunker(documents)

ChNext == ChunkDocuments

ChSpec == InitCh /\ [][ChNext]_vars

InitPl ==
    /\ InitVs
    /\ InitSm
    /\ rt = PipelineRetriever(NoBm25, "init", "none")

\* save_index(path) is VectorStore.save(path)
PlNext ==
    \/ PipelineIngest
    \/ PipelineLoadIndex
    \/ PipelineClear
    \/ VectorStoreSave
    \/ VectorStoreSaveFails

PlSpec == InitPl /\ [][PlNext]_vars

\* a VectorStore that is only ever added to
AddNext == VectorStoreAdd

AddSpec == Init /\ [][AddNext]_vars

InitRt ==
    /\ InitVs
    /\ InitSm
    /\ \E n \in 0..MaxDocs :
       \E vscore \in [1..n -> VectorScores], bscore \in [1..n -> Bm25Scores] :
       \E hybrid_enabled \in BOOLEAN, built \in BOOLEAN :
       \E w \in {<<Frac(7, 10), Frac(3, 10)>>, <<Frac(1, 2), Frac(1, 2)>>} :
         /\ built => (hybrid_enabled /\ n > 0)
         /\ rt = HybridRetriever(n, vscore, bscore, hybrid_enabled, built, w[1], w[2])

RtNext == Retrieve \/ CombineResults

RtSpec == InitRt /\ [][RtNext]_vars

\* _normalize_scores on its own, applied to any short list of scores
NsNext == NormalizeScores

NsSpec == Init /\ [][NsNext]_vars

\* a reranker, switched on or off, and any candidate list
InitRr ==
    /\ InitVs
    /\ InitSm
    /\ \E enabled \in BOOLEAN, top_m \in TopMSettings, c \in CandidateLists :
         rt = Reranker(enabled, top_m, c)

RrNext == Rerank

RrSpec == InitRr /\ [][RrNext]_vars

\* a pipeline at query time: a retriever with the default weights over any
\* small index, and a reranker switched on or off
InitRc ==
    /\ InitVs
    /\ InitSm
    /\ \E n \in 0..MaxDocs :
       \E vscore \in [1..n -> VectorScores], bscore \in [1..n -> Bm25Scores] :
       \E hybrid_enabled \in BOOLEAN, built \in BOOLEAN :
       \E enabled \in BOOLEAN, top_m \in TopMSettings :
         /\ built <=> (hybrid_enabled /\ n > 0)
         /\ rt = [HybridRetriever(n, vscore, bscore, hybrid_enabled, built,
                                  Frac(7, 10), Frac(3, 10))
                     EXCEPT !.enabled = enabled, !.top_m = top_m]

RcNext == RetrieveContext

RcSpec == InitRc /\ [][RcNext]_vars

----------------------------------------------------------------------------
(* Claims about the VectorStore, checked under VsSpec *)

\* the run the add call just made inserts, if it inserts anything
NewRuns(call, tag) == IF call.emb.len = 0 THEN <<>> ELSE <<[tag |-> tag, n |-> call.emb.len]>>

\* the call violates none of add's three shape requirements
WellShaped(call) ==
    /\ call.emb.len = call.ndocs
    /\ call.emb.ndim = 2
    /\ call.emb.dim = Dimension

\* C8 (as claimed): in every reachable state of a VectorStore, after calls
\* that end in an error too, there are as many documents as vectors and
\* documents[i] is the chunk inserted together with vector i.
C8_PositionalInvariant ==
    /\ NTotal(vs.documents) = NTotal(vs.index.vectors)
    /\ vs.documents = vs.index.vectors

C10_UpgradeTransparent ==
    [][ (nAdds' = nAdds + 1 /\ WellShaped(vsRes')) =>
          /\ vsRes'.err = "none"
          /\ vs'.index.vectors = vs.index.vectors \o NewRuns(vsRes', nAdds')
          /\ vs'.documents = vs.documents \o NewRuns(vsRes', nAdds') ]_vars

----------------------------------------------------------------------------
(* Claims about the session cache *)

\* what get_or_create_session tests at line 131
Visible(dir) == dir.exists /\ dir.index.st # "absent"

\* C1 (as claimed): at no moment do two request threads run an ingestion for
\* the same content hash.
C1_AtMostOneIngestionPerHash ==
    \A t \in Threads : \A u \in Threads \ {t} :
        (pc[t] = "ingesting" /\ pc[u] = "ingesting")
            => heap[cur[t].sid].file_hash # heap[cur[u].sid].file_hash

\* C2 (as claimed): over any sequence of get_or_create_session,
\* process_document and clear_session calls in which nothing fails, at most
\* one ingestion is run for one content hash.
C2_AtMostOneIngestionRun == \A h \in Hashes : ingestRuns[h] <= 1

\* metadata.json under the session's hash records a process_document call that
\* ran to its end for a session of another file_id
SucceededElsewhere(s) ==
    /\ disk[s.cache_path].meta.st = "ok"
    /\ disk[s.cache_path].meta.file_id # s.file_id

C4_ProcessDocumentIdempotent ==
    /\ [][ \A t \in Threads : \A sid \in 1..Len(heap) :
             ((ProcessDocument(t, sid) \/ (HrProcessDocument(t) /\ cur[t].sid = sid))
                /\ heap[sid].processed)
                => /\ UNCHANGED <<heap, disk, ingestRuns, sessions>>
                   /\ last'.op = "process_document"
                   /\ last'.err = "none"
                   /\ ~last'.ingested ]_vars
    /\ []((last.op = "process_document" /\ last.err = "none")
             => heap[last.sid].processed)

\* C4 witness: the only session ever created was ingested once, and the
\* process_document call after that returned without ingesting
C4_Witness ==
    /\ last.op = "process_document"
    /\ last.err = "none"
    /\ ~last.ingested
    /\ Len(heap) = 1
    /\ heap[1].processed
    /\ ingestRuns[heap[1].file_hash] = 1

\* C5: a get_or_create_session call for a file_id that is in the map returns
\* the mapped session object in that step, whatever path is passed, without
\* going on to hash the file and look at the cache directory, and changes
\* neither the map, nor any session, nor the cache.
C5_InMemorySessionReused ==
    [][ \A t \in Threads : \A f \in FileIds : \A p \in Paths : \A req \in BOOLEAN :
          (gocs_lookup(t, f, p, req) /\ sessions[f] # 0)
             => /\ UNCHANGED <<sessions, heap, disk, ingestRuns>>
                /\ last'.op = "get_or_create_session"
                /\ last'.sid = sessions[f]
                /\ last'.err = "none"
                /\ pc'[t] # "gocs_build" ]_vars

\* C5 witness: the mapped session was returned as it is, unprocessed, although
\* the cache directory of its hash holds a complete entry by now
C5_Witness ==
    /\ last.op = "get_or_create_session"
    /\ last.in_memory
    /\ ~heap[last.sid].processed
    /\ disk[heap[last.sid].cache_path].index.st = "ok"
    /\ disk[heap[last.sid].cache_path].docs.st = "ok"
    /\ sessions[heap[last.sid].file_id] = last.sid

\* C6 (as claimed): after a process_document call that raised, for a hash
\* no call has finished processing, get_or_create_session sees no cache entry.
C6_FailedIngestionLeavesNoCacheEntry ==
    (/\ last.op = "process_document"
     /\ last.err # "none"
     /\ disk[heap[last.sid].cache_path].meta.st = "absent")
        => ~Visible(disk[heap[last.sid].cache_path])

\* C7: clear_session(file_id) takes that file_id out of the map and changes
\* nothing else (nothing at all for a file_id that is not in the map); every
\* processed session, evicted or not, keeps its entry in the cache directory,
\* and a new session for its bytes is processed unless the load raises.
C7_ClearSessionKeepsCache ==
    /\ [][ \A t \in Threads : \A f \in FileIds :
             ClearSession(t, f)
                => /\ \A g \in FileIds \ {f} : sessions'[g] = sessions[g]
                   /\ sessions'[f] = 0
                   /\ UNCHANGED <<heap, disk, ingestRuns>> ]_vars
    /\ [](\A sid \in 1..Len(heap) :
             heap[sid].processed => Visible(disk[heap[sid].cache_path]))
    /\ [][ \A t \in Threads :
             (GocsBuild(t) /\ \E sid \in 1..Len(heap) :
                                 /\ heap[sid].processed
                                 /\ Bytes(heap[sid].filepath) = Bytes(cur[t].filepath))
                => (last'.err # "none" \/ heap'[Len(heap')].processed) ]_vars

\* C7 witness: a processed session was evicted, its file_id was asked for
\* again, and the new session came back processed from the cache, with no
\* second ingestion
C7_Witness ==
    /\ last.op = "get_or_create_session"
    /\ last.err = "none"
    /\ ~last.in_memory
    /\ heap[last.sid].processed
    /\ \E sid \in 1..Len(heap) :
         /\ sid # last.sid
         /\ heap[sid].file_id = heap[last.sid].file_id
         /\ heap[sid].processed
         /\ ingestRuns[heap[sid].file_hash] = 1

\* C11 (as claimed): load completes without error only if index.faiss and
\* documents.pkl are both there and hold the same number of entries.
C11_LoadPairedUnit ==
    (vsRes.op = "load" /\ vsRes.err = "none")
        => /\ vsDisk.index.st = "ok"
           /\ vsDisk.docs.st = "ok"
           /\ NTotal(vsDisk.docs.data) = NTotal(vsDisk.index.data.vectors)

\* C18: process_document on an unprocessed session enters the ingestion once
\* if the lower-cased suffix is .pdf, .mp3, .wav, .m4a or .mp4, and for any
\* other suffix raises ValueError leaving sessions, pipelines, cache and the
\* ingestion count as they were; an ingestion that returns records "pdf" for
\* .pdf and "audio" for the audio suffixes.
C18_DispatchOnSuffix ==
    /\ [][ \A t \in Threads : \A sid \in 1..Len(heap) :
             ((ProcessDocument(t, sid) \/ (HrProcessDocument(t) /\ cur[t].sid = sid))
                /\ ~heap[sid].processed)
                => IF SuffixLower(heap[sid].filepath)
                        \in {".pdf", ".mp3", ".wav", ".m4a", ".mp4"}
                   THEN /\ pc'[t] = "ingesting"
                        /\ ingestRuns' = [ingestRuns EXCEPT
                                            ![heap[sid].file_hash] = @ + 1]
                        /\ UNCHANGED <<heap, disk, sessions>>
                   ELSE /\ last'.op = "process_document"
                        /\ last'.sid = sid
                        /\ last'.err = "ValueError"
                        /\ ~last'.ingested
                        /\ pc'[t] = "idle"
                        /\ UNCHANGED <<heap, disk, sessions, ingestRuns>> ]_vars
    /\ [][ \A t \in Threads :
             (IngestFinish(t) /\ pc'[t] = "save_index")
                => LET sid == cur[t].sid
                       suffix == SuffixLower(heap[sid].filepath)
                   IN  /\ suffix = ".pdf" => heap'[sid].file_type = "pdf"
                       /\ suffix \in {".mp3", ".wav", ".m4a", ".mp4"}
                             => heap'[sid].file_type = "audio"
                       /\ suffix \in {".pdf", ".mp3", ".wav", ".m4a", ".mp4"} ]_vars

\* C18 witness: a .txt upload was refused with nothing ingested or written,
\* next to an audio upload that went through the audio path
C18_Witness ==
    /\ last.op = "process_document"
    /\ last.err = "ValueError"
    /\ LET s == heap[last.sid]
       IN  /\ SuffixLower(s.filepath) = ".txt"
           /\ ~s.processed
           /\ s.pipeline = NewPipeline
           /\ disk[s.cache_path] = EmptyDir
           /\ ingestRuns[s.file_hash] = 0
    /\ \E sid \in 1..Len(heap) : heap[sid].processed /\ heap[sid].file_type = "audio"

----------------------------------------------------------------------------
(* Claims about retrieval, checked under RtSpec and RrSpec *)

\* the top_k a retrieve call works with
EffectiveTopK(c) == IF c.arg = None THEN rt.top_k ELSE c.arg

\* a retrieve call that returned, took the vector-only path
FellBack == ~rt.hybrid_enabled \/ ~rt.bm25_built

Min(a, b) == IF a <= b THEN a ELSE b

\* C12: a retrieve call that returns with fusion disabled or no lexical
\* index built returns the first top_k chunks of the vector search with
\* their raw scores; otherwise it returns the first top_k of the fusion of
\* the 2*top_k best chunks of each signal.
C12_FallbackIsVectorSearch ==
    (rt.call.op = "retrieve" /\ rt.call.err = "none") =>
        LET c == rt.call
            k == EffectiveTopK(c)
        IN  IF FellBack
            THEN /\ Len(c.result) = Min(k, rt.ndocs)
                 /\ \A i \in 1..Len(c.result) :
                      /\ c.result[i].doc = c.vorder[i]
                      /\ c.result[i].score = rt.vscore[c.vorder[i]]
            ELSE LET v == Take(Pairs(c.vorder, rt.vscore), 2 * k)
                     b == Take(Pairs(c.border, rt.bscore), 2 * k)
                 IN  /\ c.result = Take(combine_results(v, b, rt.vector_weight,
                                                        rt.bm25_weight), k)
                     /\ Len(c.result) = Min(k, Cardinality(DocsOf(v) \cup DocsOf(b)))

\* C12 witness: fusion is configured but the lexical index was never built,
\* and the two best chunks come back with their raw inner products
C12_Witness ==
    /\ rt.call.op = "retrieve"
    /\ rt.call.err = "none"
    /\ rt.hybrid_enabled
    /\ ~rt.bm25_built
    /\ rt.call.arg = 2
    /\ Len(rt.call.result) = 2
    /\ rt.call.result[1].score = Frac(5, 1)
    /\ rt.call.result[2].score = Frac(4, 1)

\* the normalized score a document has in a result list, 0.0 if the list
\* does not hold it
NormalizedIn(results, doc) ==
    IF doc \in DocsOf(results)
    THEN normalize_scores(ScoresOf(results))[PosOf(results, doc)]
    ELSE Zero

\* every document of either list is in the fusion once, with
\* vector_weight * normalized vector score + bm25_weight * normalized lexical score
Fused(v, b, combined) ==
    /\ DocsOf(combined) = DocsOf(v) \cup DocsOf(b)
    /\ Len(combined) = Cardinality(DocsOf(v) \cup DocsOf(b))
    /\ \A i \in 1..Len(combined) :
         LET nv == NormalizedIn(v, combined[i].doc)
             nb == NormalizedIn(b, combined[i].doc)
         IN  /\ combined[i].score = FAdd(FMul(rt.vector_weight, nv),
                                         FMul(rt.bm25_weight, nb))
             /\ (/\ rt.vector_weight = Frac(7, 10)
                 /\ rt.bm25_weight = Frac(3, 10)
                 /\ nv = Frac(4, 5)
                 /\ nb = Frac(2, 5)) => combined[i].score = Frac(17, 25)

Whole(ns) == [i \in 1..Len(ns) |-> Frac(ns[i], 1)]

\* C14 (as claimed): _normalize_scores turns [5, 3, 3, 0] into
\* [1.0, 0.5, 0.5, 0.0] and [2, 2, 2] into [1.0, 1.0, 1.0].
C14_NormalizationAsStated ==
    rt.call.op = "normalize_scores" =>
        /\ rt.call.input = Whole(<<5, 3, 3, 0>>)
              => rt.call.result = <<Frac(1, 1), Frac(1, 2), Frac(1, 2), Frac(0, 1)>>
        /\ rt.call.input = Whole(<<2, 2, 2>>)
              => rt.call.result = <<Frac(1, 1), Frac(1, 1), Frac(1, 1)>>

\* C14 (amended): _normalize_scores turns [5, 3, 3, 0] into
\* [1.0, 0.6, 0.6, 0.0] and [2, 2, 2] into [1.0, 1.0, 1.0]; in general a list
\* of equal scores comes out as ones, and any other list as
\* (score - min) / (max - min), of the same length.
C14_MinMaxNormalization ==
    rt.call.op = "normalize_scores" =>
        LET scores == rt.call.input
            out == rt.call.result
        IN  /\ Len(out) = Len(scores)
            /\ scores = Whole(<<5, 3, 3, 0>>)
                  => out = <<Frac(1, 1), Frac(3, 5), Frac(3, 5), Frac(0, 1)>>
            /\ scores = Whole(<<2, 2, 2>>)
                  => out = <<Frac(1, 1), Frac(1, 1), Frac(1, 1)>>
            /\ \A i \in 1..Len(scores) :
                 IF \A j \in 1..Len(scores) : scores[j] = scores[i]
                 THEN out[i] = One
                 ELSE /\ FLeq(Zero, out[i]) /\ FLeq(out[i], One)
                      /\ FMul(out[i], FSub(MaxScore(scores), MinScore(scores)))
                            = FSub(scores[i], MinScore(scores))

\* C14 witness: [5, 3, 3, 0] was normalized, and 3 came out as 0.6
C14_Witness ==
    /\ rt.call.op = "normalize_scores"
    /\ rt.call.input = Whole(<<5, 3, 3, 0>>)
    /\ rt.call.result[2] = Frac(3, 5)
    /\ rt.call.result[3] = Frac(3, 5)

\* C15: the list a retrieve call returns has at most top_k entries, holds no
\* chunk twice, holds chunks of the index only, and is ordered by
\* non-increasing score.
C15_ResultWellFormed ==
    (rt.call.op = "retrieve" /\ rt.call.err = "none") =>
        LET res == rt.call.result
        IN  /\ EffectiveTopK(rt.call) >= 0
            /\ Len(res) <= EffectiveTopK(rt.call)
            /\ \A i, j \in 1..Len(res) : i # j => res[i].doc # res[j].doc
            /\ \A i \in 1..Len(res) : res[i].doc \in 1..rt.ndocs
            /\ \A i \in 1..(Len(res) - 1) : FLeq(res[i + 1].score, res[i].score)

\* C15 witness: a hybrid call for two results over three chunks, all three
\* of which were candidates; the two returned differ in score
C15_Witness ==
    /\ rt.call.op = "retrieve"
    /\ rt.call.err = "none"
    /\ ~FellBack
    /\ rt.ndocs = 3
    /\ rt.call.arg = 2
    /\ Len(rt.call.result) = 2
    /\ FLess(rt.call.result[2].score, rt.call.result[1].score)
    /\ rt.call.result[1].doc # rt.call.vorder[1]

\* the top_m a rerank call is to work with
EffectiveTopM(c) == IF c.arg = None THEN rt.top_m ELSE c.arg

\* C16 (as claimed): with reranking disabled or no candidates, rerank returns
\* the first top_m candidates as they came, for every top_m including 0, the
\* configured top_m standing in for one that is left out.
C16_IdentityFallback ==
    (rt.call.op = "rerank" /\ (~rt.enabled \/ rt.call.input = <<>>))
        => rt.call.result = Take(rt.call.input, EffectiveTopM(rt.call))

\* C17: with reranking enabled and at least one candidate, rerank returns
\* min(top_m, number of candidates) pairs, each a candidate with the score
\* the model gave it, best model score first, no candidate twice.
C17_RerankByModelScore ==
    (rt.call.op = "rerank" /\ rt.enabled /\ rt.call.input # <<>>) =>
        LET res == rt.call.result
            docs == rt.call.input
        IN  /\ rt.call.err = "none"
            /\ Len(res) = Min(EffectiveTopM(rt.call), Len(docs))
            /\ \A i \in 1..Len(res) :
                 /\ res[i].doc \in DocsOf(docs)
                 /\ res[i].score = rt.call.mscore[res[i].doc]
            /\ \A i, j \in 1..Len(res) : i # j => res[i].doc # res[j].doc
            /\ \A i \in 1..(Len(res) - 1) : FLeq(res[i + 1].score, res[i].score)
            /\ \A d \in DocsOf(docs) \ DocsOf(res) : \A i \in 1..Len(res) :
                 FLeq(rt.call.mscore[d], res[i].score)

\* C17 witness: three candidates, top_m left out and configured as 2; the
\* model liked the last candidate best, and it comes back first with the
\* model's score
C17_Witness ==
    /\ rt.call.op = "rerank"
    /\ rt.enabled
    /\ rt.call.arg = None
    /\ rt.top_m = 2
    /\ Len(rt.call.input) = 3
    /\ Len(rt.call.result) = 2
    /\ rt.call.result[1].doc = rt.call.input[3].doc
    /\ rt.call.result[1].score = Frac(7, 1)
    /\ rt.call.result[2].score = Frac(-1, 1)

\* the log records a fully-featured run writes as well
FullRunRecords == {"Vector store is empty", "Reranked"}

\* C19 (as claimed): a retrieve call that falls back to the vector-only path,
\* and a rerank call that skips the model, leaves a log record that a
\* fully-featured run does not write.
C19_FallbackObservable ==
    /\ (rt.call.op = "retrieve" /\ rt.call.err = "none" /\ FellBack)
          => rt.call.log \ FullRunRecords # {}
    /\ (rt.call.op = "rerank" /\ (~rt.enabled \/ rt.call.input = <<>>))
          => rt.call.log \ FullRunRecords # {}

\* the chunks that hold the query term: those with a lexical score above zero
WithTerm == {d \in 1..rt.ndocs : FLess(Zero, rt.bscore[d])}

\* C20 (as claimed): over three chunks of which exactly one holds the query
\* term, a hybrid retrieve with weights 0.5 and 0.5 that returns anything
\* returns that chunk first, whatever the vector scores are.
C20_TermChunkFirst ==
    (/\ rt.call.op = "retrieve"
     /\ rt.call.err = "none"
     /\ ~FellBack
     /\ rt.ndocs = 3
     /\ rt.vector_weight = Frac(1, 2)
     /\ rt.bm25_weight = Frac(1, 2)
     /\ Cardinality(WithTerm) = 1
     /\ rt.call.result # <<>>)
        => rt.call.result[1].doc \in WithTerm

----------------------------------------------------------------------------
(* Further claims about the session cache *)

\* C30: a get_or_create_session call that raises, while hashing the file or
\* while loading the cached entry, leaves the session map and every session
\* as they were and registers nothing; the file_id it was called for is
\* still unmapped, so the next call for it takes the same way again.
C30_RaiseRegistersNothing ==
    /\ [][ \A t \in Threads :
             ((GocsBuild(t) \/ GocsHashFails(t)) /\ last'.err # "none")
                => /\ UNCHANGED <<sessions, heap, disk>>
                   /\ last'.op = "get_or_create_session"
                   /\ last'.sid = 0
                   /\ pc'[t] = "idle" ]_vars
    /\ [][ \A t \in Threads :
             (pc[t] = "gocs_build" /\ pc'[t] = "idle" /\ last'.err # "none")
                => sessions'[cur[t].file_id] = 0 ]_vars

\* C30 witness: the load of a damaged cache entry raised, and the map holds
\* no session
C30_Witness ==
    /\ last.op = "get_or_create_session"
    /\ last.err \notin {"none", "FileNotFoundError"}
    /\ \A f \in FileIds : sessions[f] = 0
    /\ \E h \in Hashes : Visible(disk[h])
    /\ \A t \in Threads : pc[t] = "idle"

\* C21 (as claimed): no request thread is at the retrieval on a session's
\* pipeline (handler.handle) while another thread is inside the ingestion
\* that fills the indexes of the same session.
C21_NoRetrievalDuringIngestion ==
    \A t \in Threads : \A u \in Threads \ {t} :
        (pc[t] = "hr_handle" /\ pc[u] = "ingesting") => cur[t].sid # cur[u].sid

\* C27 (as claimed): the vector store of a session holds the chunks of the
\* session's document at most once.
C27_ChunksStoredOnce ==
    \A sid \in 1..Len(heap) :
        LET s == heap[sid]
        IN  /\ Len(s.pipeline.vector_store.documents) <= 1
            /\ NTotal(s.pipeline.vector_store.documents) <= NChunks(Bytes(s.filepath))

\* C29 (as claimed): the context _retrieve_context returns has at most the
\* configured top_m entries.
C29_ContextAtMostTopM ==
    (rt.call.op = "retrieve_context" /\ rt.call.err = "none")
        => Len(rt.call.result) <= rt.top_m

\* C23: _normalize_scores returns a list as long as its input, the empty
\* list for the empty list, ones for a list of equal scores, and otherwise
\* values between 0 and 1 with the maximum at 1, the minimum at 0 and the
\* order of the scores kept.
C23_NormalizationRange ==
    rt.call.op = "normalize_scores" =>
        LET scores == rt.call.input
            out == rt.call.result
            idx == 1..Len(scores)
        IN  /\ Len(out) = Len(scores)
            /\ scores = <<>> => out = <<>>
            /\ \A i \in idx : FLeq(Zero, out[i]) /\ FLeq(out[i], One)
            /\ \A i, j \in idx : FLeq(scores[i], scores[j]) => FLeq(out[i], out[j])
            /\ IF \A i, j \in idx : scores[i] = scores[j]
               THEN \A i \in idx : out[i] = One
               ELSE \A i \in idx :
                      /\ scores[i] = MaxScore(scores) => out[i] = One
                      /\ scores[i] = MinScore(scores) => out[i] = Zero

\* C23 witness: [2, 5, 3] came out as [0, 1, 1/3]
C23_Witness ==
    /\ rt.call.op = "normalize_scores"
    /\ rt.call.input = Whole(<<2, 5, 3>>)
    /\ rt.call.result = <<Frac(0, 1), Frac(1, 1), Frac(1, 3)>>

\* the rank at which the fusion met a document: the vector candidates in
\* vector-rank order, then the lexical-only candidates in lexical-rank order
Encounter(v, b, doc) ==
    IF doc \in DocsOf(v) THEN PosOf(v, doc) ELSE Len(v) + PosOf(b, doc)

\* C25: in the list _combine_results returns, two documents of exactly equal
\* combined score stand in the order in which the fusion met them: vector
\* candidates in vector-rank order before lexical-only candidates in
\* lexical-rank order.
C25_TiesKeepEncounterOrder ==
    rt.call.op = "combine_results" =>
        LET v == rt.call.input[1]
            b == rt.call.input[2]
            out == rt.call.result
        IN  \A i, j \in 1..Len(out) :
              (i < j /\ out[i].score = out[j].score)
                 => Encounter(v, b, out[i].doc) < Encounter(v, b, out[j].doc)

\* C25 witness: a vector candidate and a lexical-only candidate tie on a
\* non-zero combined score, and so do two vector candidates
C25_Witness ==
    /\ rt.call.op = "combine_results"
    /\ LET v == rt.call.input[1]
           b == rt.call.input[2]
           out == rt.call.result
       IN  /\ \E i, j \in 1..Len(out) :
                /\ i < j
                /\ out[i].score = out[j].score
                /\ out[i].score # Zero
                /\ out[i].doc \in DocsOf(v)
                /\ out[j].doc \notin DocsOf(v)
           /\ \E i, j \in 1..Len(out) :
                /\ i < j
                /\ out[i].score = out[j].score
                /\ {out[i].doc, out[j].doc} \subseteq DocsOf(v)

\* C28: when every stored chunk has a BM25 score of 0 for the query, a hybrid
\* retrieve returns the documents a vector-only retrieve returns for the same
\* top_k, in the same order.
C28_ZeroLexicalIsVectorOnly ==
    ( /\ rt.call.op = "retrieve"
      /\ rt.call.err = "none"
      /\ ~FellBack
      /\ \A d \in 1..rt.ndocs : rt.bscore[d] = Zero )
        => LET k == EffectiveTopK(rt.call)
               vectorOnly == Take(Pairs(rt.call.vorder, rt.vscore), k)
           IN  /\ Len(rt.call.result) = Len(vectorOnly)
               /\ \A i \in 1..Len(vectorOnly) :
                     rt.call.result[i].doc = vectorOnly[i].doc

\* C26: in every state a fresh VectorStore reaches by add calls, the index is
\* the flat one exactly when fewer than 1000 vectors are stored, and an
\* index rebuilt into the clustered structure is trained and has at least
\* 100 clusters.
C26_FlatIffBelowThreshold ==
    /\ vs.index.kind = "flat" <=> NTotal(vs.index.vectors) < UpgradeThreshold
    /\ vs.index.kind = "ivf" => vs.index.trained /\ vs.index.nlist >= MinClusters

\* C22: every chunk that chunk(documents) produces carries the metadata of
\* the input document each of its sentences was taken from.
C22_ChunkKeepsMetadata ==
    rt.call.op = "chunk" =>
        LET docs == Documents(rt.call.input, 1)
        IN  \A c \in 1..Len(rt.call.result) :
              LET ch == rt.call.result[c]
              IN  \A i \in 1..Len(ch.text) : ch.metadata = docs[ch.text[i].doc].metadata

\* C24: after ingest, load_index or clear, each followed by update_index,
\* the lexical index is built over the documents the store holds: absent or
\* empty when the store is empty, else one entry per document in order.
C24_LexicalIndexMatchesStore ==
    (rt.call.op \in {"ingest", "load_index", "clear"} /\ rt.call.err = "none")
        => IF vs.documents = <<>>
           THEN ~rt.bm25.built \/ rt.bm25.corpus = <<>>
           ELSE rt.bm25.built /\ rt.bm25.corpus = vs.documents

====
